---- MODULE Spec2Model ----
(***************************************************************************)
(* The Login component (login.js) and its component-story test suite       *)
(* (test/login.spec.jsx).                                                  *)
(*                                                                         *)
(* JavaScript strings are sequences of one-character strings, so that the  *)
(* conversions the code performs (String(), JSON.stringify, a             *)
(* case-insensitive regular-expression match) are computed.                *)
(* A JavaScript value is a record [t, s]: t is its type, s its text (the   *)
(* characters of a string, the decimal digits of a number).                *)
(***************************************************************************)
EXTENDS Integers, Sequences, FiniteSets

\* ------------------------------------------------------------------ bounds

\* Number of form submissions explored.
MaxSubmits == 2

\* ----------------------------------------------------------- JS values

Undefined == [t |-> "undefined", s |-> <<>>]
Null == [t |-> "null", s |-> <<>>]
Str(chars) == [t |-> "string", s |-> chars]
Num(digits) == [t |-> "number", s |-> digits]

\* String(v), the conversion localStorage.setItem applies to its value and
\* React applies to a text child.
ToString(v) ==
  CASE v.t = "string" -> v.s
    [] v.t = "number" -> v.s
    [] v.t = "null" -> <<"n", "u", "l", "l">>
    [] v.t = "undefined" -> <<"u", "n", "d", "e", "f", "i", "n", "e", "d">>

\* The truthiness test of `cond ? a : b`.
Truthy(v) ==
  CASE v.t = "string" -> v.s # <<>>
    [] v.t = "number" -> v.s # <<"0">>
    [] v.t = "null" -> FALSE
    [] v.t = "undefined" -> FALSE

\* A parsed JSON body or an Error object, as far as the handlers read it:
\* null, or an object with its token and message properties (Undefined
\* when the property is absent).
NullBody == [t |-> "null", token |-> Undefined, message |-> Undefined]
Obj(tok, msg) == [t |-> "object", token |-> tok, message |-> msg]

\* ------------------------------------------------------------ literals

token == <<"f", "a", "k", "e", "_", "u", "s", "e", "r", "_", "t", "o", "k", "e", "n">>
InternalServerError ==
  <<"I", "n", "t", "e", "r", "n", "a", "l", " ", "s", "e", "r", "v", "e", "r", " ",
    "e", "r", "r", "o", "r">>
CongratsText ==
  <<"C", "o", "n", "g", "r", "a", "t", "s", "!", " ", "Y", "o", "u", "'", "r", "e", " ",
    "s", "i", "g", "n", "e", "d", " ", "i", "n", "!">>
chuck == <<"c", "h", "u", "c", "k">>
norris == <<"n", "o", "r", "r", "i", "s">>
LoginUrl ==
  <<"h", "t", "t", "p", ":", "/", "/", "l", "o", "c", "a", "l", "h", "o", "s", "t", ":",
    "3", "0", "0", "0", "/", "a", "p", "i", "/", "l", "o", "g", "i", "n">>

\* The text typed into an input that needs escaping in JSON: a"\
QuoteBackslash == <<"a", "\"", "\\">>
FailedToFetch ==
  <<"F", "a", "i", "l", "e", "d", " ", "t", "o", " ", "f", "e", "t", "c", "h">>
UnexpectedToken ==
  <<"U", "n", "e", "x", "p", "e", "c", "t", "e", "d", " ", "t", "o", "k", "e", "n">>
Denied == <<"d", "e", "n", "i", "e", "d">>

\* ------------------------------------------------------- JSON.stringify

RECURSIVE Escape(_)
\* The characters of a JSON string literal's content: a quote and a
\* backslash are each preceded by a backslash.
Escape(chars) ==
  IF chars = <<>> THEN <<>>
  ELSE (IF Head(chars) \in {"\"", "\\"} THEN <<"\\", Head(chars)>> ELSE <<Head(chars)>>)
       \o Escape(Tail(chars))

Quote(chars) == <<"\"">> \o Escape(chars) \o <<"\"">>

\* JSON.stringify({username: u, password: p}) for two strings.
JSONStringify(u, p) ==
  <<"{">> \o Quote(<<"u", "s", "e", "r", "n", "a", "m", "e">>) \o <<":">> \o Quote(u)
  \o <<",">> \o Quote(<<"p", "a", "s", "s", "w", "o", "r", "d">>) \o <<":">> \o Quote(p)
  \o <<"}">>

\* ------------------------------------------------------------- the view

\* The reducer of React.useReducer: the action's fields over the state's.
Reducer(s, a) ==
  [k \in DOMAIN s \cup DOMAIN a |-> IF k \in DOMAIN a THEN a[k] ELSE s[k]]

InitialState == [resolved |-> FALSE, loading |-> FALSE, error |-> Null]

\* The elements with role "alert" that the component renders, by their
\* text, in document order.
Alerts(st) ==
  (IF Truthy(st.error) THEN <<ToString(st.error)>> ELSE <<>>)
  \o (IF st.resolved THEN <<CongratsText>> ELSE <<>>)

\* The text of the submit button.
ButtonText(st) ==
  <<"S", "u", "b", "m", "i", "t">> \o (IF st.loading THEN <<".", ".", ".">> ELSE <<>>)

\* ------------------------------------------------------------ the state

VARIABLES
  state,          \* the component's reducer state {resolved, loading, error}
  usernameInput,  \* value of <input id="usernameInput">
  passwordInput,  \* value of <input id="passwordInput">
  storage,        \* window.localStorage: key -> Str(value), Null when absent
  requests,       \* the fetch calls made so far, in the order of submission
  last,           \* index in requests of the call whose handler ran last, 0 if none
  submissions,    \* number of submit events the form has handled
  pc,             \* position of the test runner in the suite ("off": no suite)
  server,         \* the mock server: "none", "created", "routed", "listening", "closed"
  serverResponse, \* the test file's serverResponse {status, body}
  found,          \* texts of the elements the story's last query matched
  read,           \* value the story's last localStorage.getItem returned
  failed          \* the assertions and queries of the suite that failed

component == <<state, usernameInput, passwordInput, storage, requests, last, submissions>>
suite == <<pc, server, serverResponse, found, read, failed>>
vars == <<state, usernameInput, passwordInput, storage, requests, last, submissions,
          pc, server, serverResponse, found, read, failed>>

StorageKeys == {"token", "theme"}
StaleToken == <<"o", "l", "d">>
Dark == <<"d", "a", "r", "k">>

\* --------------------------------------------------------- the network

NoResponse == [kind |-> "none", status |-> 0, valid |-> FALSE, body |-> NullBody]
NetworkError == [kind |-> "neterr", status |-> 0, valid |-> FALSE, body |-> NullBody]
\* A response with a status and a body that is JSON text for `body`.
Json(status, body) == [kind |-> "response", status |-> status, valid |-> TRUE, body |-> body]
\* A response whose body is not JSON text.
NotJson(status) == [kind |-> "response", status |-> status, valid |-> FALSE, body |-> NullBody]

\* Response.ok
Ok(resp) == resp.status >= 200 /\ resp.status <= 299

\* What the environment may answer to a request.
Responses ==
  { NetworkError,
    NotJson(200),
    Json(200, Obj(Str(token), Undefined)),
    Json(201, Obj(Num(<<"4", "2">>), Undefined)),
    Json(299, Obj(Undefined, Undefined)),
    Json(200, NullBody),
    Json(500, Obj(Undefined, Str(InternalServerError))),
    Json(401, Obj(Str(StaleToken), Str(Denied))),
    Json(300, Obj(Undefined, Str(<<>>))),
    Json(404, Obj(Undefined, Undefined)),
    Json(500, NullBody) }

TypeError(msg) == Obj(Undefined, Str(msg))

\* Chain without the r.ok test: every parsed body fulfils the promise.
ChainIgnoresOk(resp) ==
  IF resp.kind = "neterr" THEN [kind |-> "rejected", value |-> TypeError(FailedToFetch)]
  ELSE IF ~resp.valid THEN [kind |-> "rejected", value |-> TypeError(UnexpectedToken)]
  ELSE [kind |-> "fulfilled", value |-> resp.body]

\* The promise that line 26 leaves for the handlers of lines 27-35:
\*   fetch(...).then(r => r.json().then(data => (r.ok ? data : Promise.reject(data))))
\* A rejected fetch skips the callback; a body that is not JSON rejects r.json().
Chain(resp) ==
  IF resp.kind = "neterr" THEN [kind |-> "rejected", value |-> TypeError(FailedToFetch)]
  ELSE IF ~resp.valid THEN [kind |-> "rejected", value |-> TypeError(UnexpectedToken)]
  ELSE IF Ok(resp) THEN [kind |-> "fulfilled", value |-> resp.body]
  ELSE [kind |-> "rejected", value |-> resp.body]

\* ------------------------------------------------------- the component

\* window.localStorage.setItem(key, value)
SetItem(store, key, value) == [store EXCEPT ![key] = Str(ToString(value))]

\* Fetch with the password read from the username input.
FetchUsernameTwice(u, p) ==
  [phase |-> "sent", method |-> "POST", url |-> LoginUrl, body |-> JSONStringify(u, u),
   resp |-> NoResponse, ran |-> "none", threw |-> FALSE]

\* The fetch call of lines 17-25.
Fetch(u, p) ==
  [phase |-> "sent", method |-> "POST", url |-> LoginUrl, body |-> JSONStringify(u, p),
   resp |-> NoResponse, ran |-> "none", threw |-> FALSE]

\* A change event on an input.
ChangeInputs(u, p) ==
  /\ usernameInput' = u
  /\ passwordInput' = p
  /\ UNCHANGED <<state, storage, requests, last, submissions>>

\* HandleSubmit with setState({loading: true}) alone.
HandleSubmitOnlyLoading ==
  /\ submissions < MaxSubmits
  /\ submissions' = submissions + 1
  /\ state' = Reducer(state, [loading |-> TRUE])
  /\ requests' = Append(requests, Fetch(usernameInput, passwordInput))
  /\ UNCHANGED <<usernameInput, passwordInput, storage, last>>

\* HandleSubmit with setState({loading: true, resolved: false}): the error stays.
HandleSubmitKeepsError ==
  /\ submissions < MaxSubmits
  /\ submissions' = submissions + 1
  /\ state' = Reducer(state, [loading |-> TRUE, resolved |-> FALSE])
  /\ requests' = Append(requests, Fetch(usernameInput, passwordInput))
  /\ UNCHANGED <<usernameInput, passwordInput, storage, last>>

\* handleSubmit, lines 11-25: the state update, then the fetch call.
HandleSubmit ==
  /\ submissions < MaxSubmits
  /\ submissions' = submissions + 1
  /\ state' = Reducer(state, [loading |-> TRUE, resolved |-> FALSE, error |-> Null])
  /\ requests' = Append(requests, Fetch(usernameInput, passwordInput))
  /\ UNCHANGED <<usernameInput, passwordInput, storage, last>>

\* The response to call i reaches the browser.
Answer(i, resp) ==
  /\ requests[i].phase = "sent"
  /\ requests' = [requests EXCEPT ![i].phase = "answered", ![i].resp = resp, ![i].body = <<>>]
  /\ UNCHANGED <<state, usernameInput, passwordInput, storage, last, submissions>>

\* OnFulfilled storing the user object instead of its token.
OnFulfilledStoresUser(i, user) ==
  /\ state' = Reducer(state, [loading |-> FALSE, resolved |-> TRUE, error |-> Null])
  /\ storage' = SetItem(storage, "token",
                        Str(IF user.t = "null" THEN <<"n", "u", "l", "l">>
                            ELSE <<"[", "o", "b", "j", "e", "c", "t", " ",
                                   "O", "b", "j", "e", "c", "t", "]">>))
  /\ requests' = [requests EXCEPT ![i].phase = "handled", ![i].ran = "success"]

\* Lines 28-31, the fulfilment handler: user.token of null throws after the
\* state update was dispatched.
OnFulfilled(i, user) ==
  /\ state' = Reducer(state, [loading |-> FALSE, resolved |-> TRUE, error |-> Null])
  /\ IF user.t = "null"
     THEN /\ storage' = storage
          /\ requests' = [requests EXCEPT ![i].phase = "handled", ![i].ran = "success",
                                          ![i].threw = TRUE]
     ELSE /\ storage' = SetItem(storage, "token", user.token)
          /\ requests' = [requests EXCEPT ![i].phase = "handled", ![i].ran = "success"]

\* OnRejected that also removes the stored token.
OnRejectedClearsToken(i, error) ==
  /\ storage' = [storage EXCEPT !["token"] = Null]
  /\ IF error.t = "null"
     THEN /\ state' = state
          /\ requests' = [requests EXCEPT ![i].phase = "handled", ![i].ran = "failure",
                                          ![i].threw = TRUE]
     ELSE /\ state' = Reducer(state, [loading |-> FALSE, resolved |-> FALSE,
                                      error |-> error.message])
          /\ requests' = [requests EXCEPT ![i].phase = "handled", ![i].ran = "failure"]

\* OnRejected with setState({loading: false, error: error.message}): resolved stays.
OnRejectedKeepsResolved(i, error) ==
  /\ storage' = storage
  /\ IF error.t = "null"
     THEN /\ state' = state
          /\ requests' = [requests EXCEPT ![i].phase = "handled", ![i].ran = "failure",
                                          ![i].threw = TRUE]
     ELSE /\ state' = Reducer(state, [loading |-> FALSE, error |-> error.message])
          /\ requests' = [requests EXCEPT ![i].phase = "handled", ![i].ran = "failure"]

\* Lines 32-34, the rejection handler: error.message of null throws before
\* setState is called.
OnRejected(i, error) ==
  /\ storage' = storage
  /\ IF error.t = "null"
     THEN /\ state' = state
          /\ requests' = [requests EXCEPT ![i].phase = "handled", ![i].ran = "failure",
                                          ![i].threw = TRUE]
     ELSE /\ state' = Reducer(state, [loading |-> FALSE, resolved |-> FALSE,
                                      error |-> error.message])
          /\ requests' = [requests EXCEPT ![i].phase = "handled", ![i].ran = "failure"]

\* The promise chain of lines 26-35 runs for call i once its response is in.
Complete(i) ==
  /\ requests[i].phase = "answered"
  /\ LET c == Chain(requests[i].resp)
     IN IF c.kind = "fulfilled" THEN OnFulfilled(i, c.value) ELSE OnRejected(i, c.value)
  /\ last' = i
  /\ UNCHANGED <<usernameInput, passwordInput, submissions>>

\* ------------------------------------- the component with any network

Usernames == {QuoteBackslash}
Passwords == {norris}

ChangeUsername(v) == ChangeInputs(v, passwordInput) /\ UNCHANGED suite
ChangePassword(v) == ChangeInputs(usernameInput, v) /\ UNCHANGED suite
Submit == HandleSubmit /\ UNCHANGED suite
Respond(i, resp) == Answer(i, resp) /\ UNCHANGED suite
Settle(i) == Complete(i) /\ UNCHANGED suite

InitialResponse == [status |-> 200, body |-> Obj(Str(token), Undefined)]

InitComponent ==
  /\ state = InitialState
  /\ usernameInput = <<>>
  /\ passwordInput = <<>>
  /\ storage \in {[token |-> t, theme |-> Str(Dark)] : t \in {Null, Str(StaleToken)}}
  /\ requests = <<>>
  /\ last = 0
  /\ submissions = 0

Init ==
  /\ InitComponent
  /\ pc = "off"
  /\ server = "none"
  /\ serverResponse = InitialResponse
  /\ found = <<>>
  /\ read = Undefined
  /\ failed = {}

Next ==
  \/ \E v \in Usernames : ChangeUsername(v)
  \/ \E v \in Passwords : ChangePassword(v)
  \/ Submit
  \/ \E i \in 1..Len(requests), resp \in Responses : Respond(i, resp)
  \/ \E i \in 1..Len(requests) : Settle(i)

Spec == Init /\ [][Next]_vars

\* ============================================================ the suite

\* ------------------------------------------------ the queries of the DOM

LowerCase ==
  [c \in {"A", "B", "C", "D", "E", "F", "G", "H", "I", "J", "K", "L", "M", "N", "O", "P",
          "Q", "R", "S", "T", "U", "V", "W", "X", "Y", "Z"} |->
     CASE c = "A" -> "a" [] c = "B" -> "b" [] c = "C" -> "c" [] c = "D" -> "d"
       [] c = "E" -> "e" [] c = "F" -> "f" [] c = "G" -> "g" [] c = "H" -> "h"
       [] c = "I" -> "i" [] c = "J" -> "j" [] c = "K" -> "k" [] c = "L" -> "l"
       [] c = "M" -> "m" [] c = "N" -> "n" [] c = "O" -> "o" [] c = "P" -> "p"
       [] c = "Q" -> "q" [] c = "R" -> "r" [] c = "S" -> "s" [] c = "T" -> "t"
       [] c = "U" -> "u" [] c = "V" -> "v" [] c = "W" -> "w" [] c = "X" -> "x"
       [] c = "Y" -> "y" [] c = "Z" -> "z"]

Lower(c) == IF c \in DOMAIN LowerCase THEN LowerCase[c] ELSE c

\* Match of a regular expression /pattern/ that is a literal text, as
\* written in the test file, with no i flag.
MatchCase(pattern, text) ==
  \E k \in 0..(Len(text) - Len(pattern)) :
    \A j \in 1..Len(pattern) : text[k + j] = pattern[j]

\* Match of a regular expression /pattern/i that is a literal text: the
\* pattern occurs in the text, letter case ignored.
Match(pattern, text) ==
  \E k \in 0..(Len(text) - Len(pattern)) :
    \A j \in 1..Len(pattern) : Lower(text[k + j]) = Lower(pattern[j])

\* The inputs of the form by the text of their labels (lines 42-43, 46-47).
LabelText ==
  [usernameInput |-> <<"U", "s", "e", "r", "n", "a", "m", "e">>,
   passwordInput |-> <<"P", "a", "s", "s", "w", "o", "r", "d">>]

\* getByLabelText(/pattern/i): the inputs whose label matches.
ByLabelText(pattern) == {el \in DOMAIN LabelText : Match(pattern, LabelText[el])}

\* getByText(/pattern/i): the elements whose text matches, among the two
\* labels, the button and the alerts.
ByText(pattern, st) ==
  {el \in DOMAIN LabelText : Match(pattern, LabelText[el])}
  \cup (IF Match(pattern, ButtonText(st)) THEN {"submit"} ELSE {})
  \cup {"alert" : k \in {j \in 1..Len(Alerts(st)) : Match(pattern, Alerts(st)[j])}}

\* The patterns of the test file.
UsernamePattern == <<"u", "s", "e", "r", "n", "a", "m", "e">>
PasswordPattern == <<"p", "a", "s", "s", "w", "o", "r", "d">>
SubmitPattern == <<"s", "u", "b", "m", "i", "t">>
CongratsPattern == <<"c", "o", "n", "g", "r", "a", "t", "s">>
ServerErrorPattern ==
  <<"i", "n", "t", "e", "r", "n", "a", "l", " ", "s", "e", "r", "v", "e", "r", " ",
    "e", "r", "r", "o", "r">>

\* ------------------------------------------------------ the mock server

ServerOrigin ==
  <<"h", "t", "t", "p", ":", "/", "/", "l", "o", "c", "a", "l", "h", "o", "s", "t", ":",
    "3", "0", "0", "0">>
LoginRoute == <<"/", "a", "p", "i", "/", "l", "o", "g", "i", "n">>

\* ServerAnswer with the response captured when the route was set up.
ServerAnswerInitial(req) ==
  IF server # "listening" THEN NetworkError
  ELSE IF req.method = "POST" /\ req.url = ServerOrigin \o LoginRoute
       THEN Json(200, Obj(Str(token), Undefined))
  ELSE NotJson(404)

\* What a request gets back: nothing listens before server.start(3000) and
\* after server.close(); the one route answers with the status and body
\* serverResponse holds now; any other request gets the 404 page.
ServerAnswer(req) ==
  IF server # "listening" THEN NetworkError
  ELSE IF req.method = "POST" /\ req.url = ServerOrigin \o LoginRoute
       THEN Json(serverResponse.status, serverResponse.body)
  ELSE NotJson(404)

\* The request of call i reaches the server and is answered.
ServerHandle(i) ==
  /\ pc # "off"
  /\ Answer(i, ServerAnswer(requests[i]))
  /\ UNCHANGED suite

\* ------------------------------------------------------ the test runner

\* One step of the runner: on to the next step when ok, else the failure is
\* recorded and the rest of the story is skipped.
Step(ok, name, to, skipTo) ==
  /\ pc' = IF ok THEN to ELSE skipTo
  /\ failed' = IF ok THEN failed ELSE failed \cup {name}

\* A story is rendered: a new instance of the component.
Mount ==
  /\ state' = InitialState
  /\ usernameInput' = <<>>
  /\ passwordInput' = <<>>
  /\ UNCHANGED <<storage, requests, last, submissions>>

\* The input element el takes the value v.
SetValue(el, v) ==
  IF el = "usernameInput" THEN ChangeInputs(v, passwordInput)
  ELSE ChangeInputs(usernameInput, v)

ValueOf(el) == IF el = "usernameInput" THEN usernameInput ELSE passwordInput

\* fireEvent.change(screen.getByLabelText(pattern), {target: {value}})
FireChange(pattern, value, name, to, skipTo) ==
  LET els == ByLabelText(pattern)
  IN /\ Step(Cardinality(els) = 1, name, to, skipTo)
     /\ IF Cardinality(els) = 1
        THEN SetValue(CHOOSE el \in els : TRUE, value)
        ELSE UNCHANGED component
     /\ UNCHANGED <<server, serverResponse, found, read>>

\* (await browser.getByLabelText(pattern)).sendKeys(keys), one key a step.
SendKeys(pattern, keys, name, to, skipTo) ==
  LET els == ByLabelText(pattern)
  IN /\ IF Cardinality(els) = 1
        THEN LET el == CHOOSE e \in els : TRUE
                 v == Append(ValueOf(el), keys[Len(ValueOf(el)) + 1])
             IN /\ Len(ValueOf(el)) < Len(keys)
                /\ SetValue(el, v)
                /\ Step(TRUE, name, IF Len(v) = Len(keys) THEN to ELSE pc, skipTo)
        ELSE /\ UNCHANGED component
             /\ Step(FALSE, name, to, skipTo)
     /\ UNCHANGED <<server, serverResponse, found, read>>

\* A click on the element getByText(pattern) finds: on the button it
\* submits the form.
Click(pattern, name, to, skipTo) ==
  LET els == ByText(pattern, state)
  IN /\ Step(Cardinality(els) = 1, name, to, skipTo)
     /\ IF els = {"submit"} THEN HandleSubmit ELSE UNCHANGED component
     /\ UNCHANGED <<server, serverResponse, found, read>>

\* browser.getByRole('alert') is sent to the browser.
QueryStart(to) ==
  /\ pc' = to
  /\ UNCHANGED <<server, serverResponse, found, read, failed>>
  /\ UNCHANGED component

\* browser.getByRole('alert') returns: the one alert once there is one; it
\* fails on two alerts, and on none when no request is outstanding any more.
QueryAlert(name, to, skipTo) ==
  /\ Alerts(state) # <<>> \/ \A i \in 1..Len(requests) : requests[i].phase = "handled"
  /\ found' = Alerts(state)
  /\ Step(Len(Alerts(state)) = 1, name, to, skipTo)
  /\ UNCHANGED <<server, serverResponse, read>>
  /\ UNCHANGED component

\* expect(alert).text.to.match(/pattern/i)
ExpectText(pattern, name, to, skipTo) ==
  /\ Step(Len(found) = 1 /\ Match(pattern, found[1]), name, to, skipTo)
  /\ UNCHANGED <<server, serverResponse, found, read>>
  /\ UNCHANGED component

\* browser.execute(() => window.localStorage.getItem('token'))
GetItem(to) ==
  /\ read' = storage["token"]
  /\ pc' = to
  /\ UNCHANGED <<server, serverResponse, found, failed>>
  /\ UNCHANGED component

\* expect(localStorage).to.equal(token)
ExpectToken(name, to) ==
  /\ Step(read = Str(token), name, to, to)
  /\ UNCHANGED <<server, serverResponse, found, read>>
  /\ UNCHANGED component

\* ---- setup, lines 14-23
SetupCreate ==
  /\ pc = "setup"
  /\ server = "none"
  /\ server' = "created"
  /\ UNCHANGED <<pc, serverResponse, found, read, failed>>
  /\ UNCHANGED component

SetupRoutes ==
  /\ pc = "setup"
  /\ server = "created"
  /\ server' = "routed"
  /\ UNCHANGED <<pc, serverResponse, found, read, failed>>
  /\ UNCHANGED component

SetupStart ==
  /\ pc = "setup"
  /\ server = "routed"
  /\ server' = "listening"
  /\ pc' = "render1"
  /\ UNCHANGED <<serverResponse, found, read, failed>>
  /\ UNCHANGED component

\* ---- LoginWithValidCredentials, lines 34-57
Render1 ==
  /\ pc = "render1"
  /\ Mount
  /\ pc' = "play_username"
  /\ UNCHANGED <<server, serverResponse, found, read, failed>>

PlayUsername ==
  /\ pc = "play_username"
  /\ FireChange(UsernamePattern, chuck, "play", "play_password", "preRender2")

PlayPassword ==
  /\ pc = "play_password"
  /\ FireChange(PasswordPattern, norris, "play", "play_click", "preRender2")

PlayClick ==
  /\ pc = "play_click"
  /\ Click(SubmitPattern, "play", "test1", "preRender2")

Test1Query == pc = "test1" /\ QueryStart("test1_alert")

Test1Alert ==
  /\ pc = "test1_alert"
  /\ QueryAlert("test1_getByRole", "test1_text", "preRender2")

Test1ExpectText ==
  /\ pc = "test1_text"
  /\ ExpectText(CongratsPattern, "test1_text", "test1_getItem", "preRender2")

Test1GetItem == pc = "test1_getItem" /\ GetItem("test1_token")

Test1ExpectToken == pc = "test1_token" /\ ExpectToken("test1_token", "preRender2")

\* ---- LoginWithServerException, lines 59-85
PreRender2 ==
  /\ pc = "preRender2"
  /\ serverResponse' = [status |-> 500, body |-> Obj(Undefined, Str(InternalServerError))]
  /\ pc' = "render2"
  /\ UNCHANGED <<server, found, read, failed>>
  /\ UNCHANGED component

Render2 ==
  /\ pc = "render2"
  /\ Mount
  /\ pc' = "test2_username"
  /\ found' = <<>>
  /\ read' = Undefined
  /\ UNCHANGED <<server, serverResponse, failed>>

Test2Username ==
  /\ pc = "test2_username"
  /\ SendKeys(UsernamePattern, chuck, "test2_username", "test2_password", "teardown")

Test2Password ==
  /\ pc = "test2_password"
  /\ SendKeys(PasswordPattern, norris, "test2_password", "test2_click", "teardown")

Test2Click ==
  /\ pc = "test2_click"
  /\ Click(SubmitPattern, "test2_click", "test2", "teardown")

Test2Query == pc = "test2" /\ QueryStart("test2_alert")

Test2Alert ==
  /\ pc = "test2_alert"
  /\ QueryAlert("test2_getByRole", "test2_text", "teardown")

Test2ExpectText ==
  /\ pc = "test2_text"
  /\ ExpectText(ServerErrorPattern, "test2_text", "test2_getItem", "teardown")

Test2GetItem == pc = "test2_getItem" /\ GetItem("test2_token")

Test2ExpectToken == pc = "test2_token" /\ ExpectToken("test2_token", "teardown")

\* ---- teardown, lines 25-31
TeardownRemove ==
  /\ pc = "teardown"
  /\ storage' = [storage EXCEPT !["token"] = Null]
  /\ pc' = "close"
  /\ UNCHANGED <<server, serverResponse, found, read, failed>>
  /\ UNCHANGED <<state, usernameInput, passwordInput, requests, last, submissions>>

TeardownClose ==
  /\ pc = "close"
  /\ server' = "closed"
  /\ pc' = "done"
  /\ UNCHANGED <<serverResponse, found, read, failed>>
  /\ UNCHANGED component

\* The suite starts in a browser whose storage may hold what earlier pages
\* of the origin left there.
SuiteInit ==
  /\ state = InitialState
  /\ usernameInput = <<>>
  /\ passwordInput = <<>>
  /\ storage \in [StorageKeys -> {Null, Str(StaleToken), Str(Dark)}]
  /\ requests = <<>>
  /\ last = 0
  /\ submissions = 0
  /\ pc = "setup"
  /\ server = "none"
  /\ serverResponse = InitialResponse
  /\ found = <<>>
  /\ read = Undefined
  /\ failed = {}

SuiteNext ==
  \/ SetupCreate \/ SetupRoutes \/ SetupStart
  \/ Render1 \/ PlayUsername \/ PlayPassword \/ PlayClick
  \/ Test1Query \/ Test1Alert \/ Test1ExpectText \/ Test1GetItem \/ Test1ExpectToken
  \/ PreRender2 \/ Render2
  \/ Test2Username \/ Test2Password \/ Test2Click
  \/ Test2Query \/ Test2Alert \/ Test2ExpectText \/ Test2GetItem \/ Test2ExpectToken
  \/ TeardownRemove \/ TeardownClose
  \/ \E i \in 1..Len(requests) : ServerHandle(i)
  \/ \E i \in 1..Len(requests) : Settle(i)

SuiteSpec == SuiteInit /\ [][SuiteNext]_vars

\* ================================================================ claims

\* The handler of call i runs in this step.
Delivered(i) ==
  /\ i \in 1..Len(requests)
  /\ requests[i].phase = "answered"
  /\ requests'[i].phase = "handled"

\* A form submission is handled in this step.
Submitted == submissions' = submissions + 1

\* Call i was answered with an ok response whose JSON body carries a token.
OkWithToken(i) ==
  LET r == requests[i].resp
  IN r.kind = "response" /\ r.valid /\ Ok(r) /\ r.body.t = "object"
     /\ r.body.token # Undefined

\* Call i was answered with a non-ok response whose JSON body carries a message.
NotOkWithMessage(i) ==
  LET r == requests[i].resp
  IN r.kind = "response" /\ r.valid /\ ~Ok(r) /\ r.body.t = "object"
     /\ r.body.message # Undefined

SuccessState == [resolved |-> TRUE, loading |-> FALSE, error |-> Null]
LoadingState == [resolved |-> FALSE, loading |-> TRUE, error |-> Null]

\* ---- C1
\* C1 as stated: when the handler runs for an ok response with a token, the
\* state becomes resolved, not loading, no error, and storage key "token"
\* holds exactly the token value of the response.
C1_StoresExactToken ==
  [][\A i \in 1..Len(requests) :
       (Delivered(i) /\ OkWithToken(i)) =>
         /\ state' = SuccessState
         /\ Alerts(state') = <<CongratsText>>
         /\ storage'["token"] = requests[i].resp.body.token]_vars

\* C1 (amended): when the handler runs for an ok response with a token, the
\* state becomes resolved, not loading, no error (the congrats alert is the
\* one alert), and storage key "token" holds the string conversion of the
\* response's token: the token itself when it is a string.
C1_SuccessfulLogin ==
  [][\A i \in 1..Len(requests) :
       (Delivered(i) /\ OkWithToken(i)) =>
         /\ state' = SuccessState
         /\ Alerts(state') = <<CongratsText>>
         /\ storage'["token"] = Str(ToString(requests[i].resp.body.token))
         /\ (requests[i].resp.body.token.t = "string"
               => storage'["token"] = requests[i].resp.body.token)]_vars

\* A success handler has run for a string token and for a number token, and
\* the one that ran last was the number's.
C1_Witness ==
  /\ \E i \in 1..Len(requests) :
       /\ requests[i].phase = "handled"
       /\ requests[i].resp = Json(200, Obj(Str(token), Undefined))
  /\ last # 0
  /\ requests[last].resp = Json(201, Obj(Num(<<"4", "2">>), Undefined))
  /\ storage["token"] = Str(<<"4", "2">>)
  /\ state.resolved

\* ---- C2
\* C2 as stated: when the handler runs for a non-ok response with a message,
\* the state becomes not loading, not resolved, error = the message, and the
\* alert shown is that message.
C2_AlertIsMessage ==
  [][\A i \in 1..Len(requests) :
       (Delivered(i) /\ NotOkWithMessage(i)) =>
         /\ state' = [resolved |-> FALSE, loading |-> FALSE,
                      error |-> requests[i].resp.body.message]
         /\ Alerts(state') = <<requests[i].resp.body.message.s>>]_vars

\* C2 (amended): when the handler runs for a non-ok response with a string
\* message, the state becomes not loading, not resolved, error = the
\* message; the success alert is not shown; the one alert shown is the
\* message when the message is not empty, and no alert is shown when it is
\* the empty string.
C2_FailedLogin ==
  [][\A i \in 1..Len(requests) :
       (Delivered(i) /\ NotOkWithMessage(i) /\ requests[i].resp.body.message.t = "string") =>
         LET m == requests[i].resp.body.message
         IN /\ state' = [resolved |-> FALSE, loading |-> FALSE, error |-> m]
            /\ Alerts(state') = IF m.s = <<>> THEN <<>> ELSE <<m.s>>]_vars

\* A failure handler has run for a 500 with a message after a success: the
\* message is the alert.
C2_Witness ==
  /\ last # 0
  /\ requests[last].resp = Json(500, Obj(Undefined, Str(InternalServerError)))
  /\ requests[last].phase = "handled"
  /\ Alerts(state) = <<InternalServerError>>
  /\ \E i \in 1..Len(requests) : requests[i].ran = "success"

\* ---- C3
\* C3: a step changes storage only when it is a fulfilment handler's step,
\* and then only at key "token"; a submission and a rejection handler leave
\* storage unchanged.
C3_StorageFrame ==
  [][/\ (storage' # storage =>
           /\ \E i \in 1..Len(requests) :
                Delivered(i) /\ Chain(requests[i].resp).kind = "fulfilled"
           /\ \A k \in StorageKeys \ {"token"} : storage'[k] = storage[k])
     /\ (Submitted => storage' = storage)
     /\ \A i \in 1..Len(requests) :
          (Delivered(i) /\ Chain(requests[i].resp).kind = "rejected") => storage' = storage
    ]_vars

\* A failed login was handled after a successful one and the token of the
\* successful one is still stored.
C3_Witness ==
  /\ Len(requests) = 2
  /\ requests[1].phase = "handled" /\ requests[1].ran = "success"
  /\ requests[1].resp = Json(200, Obj(Str(token), Undefined))
  /\ requests[2].phase = "handled" /\ requests[2].ran = "failure"
  /\ last = 2
  /\ storage["token"] = Str(token)

\* ---- C4
\* The error field is set: it is not the null of the initial state.
ErrorSet(st) == st.error # Null

HowManyOf(st) ==
  (IF st.loading THEN 1 ELSE 0) + (IF st.resolved THEN 1 ELSE 0)
  + (IF ErrorSet(st) THEN 1 ELSE 0)

\* C4 as stated: in every reachable state exactly one of loading, resolved,
\* error-set holds.
C4_ExactlyOne == HowManyOf(state) = 1

\* C4 (amended): in every reachable state at most one of loading, resolved,
\* error-set holds (none holds in the initial, idle state).
C4_AtMostOne == HowManyOf(state) <= 1

\* Each of the three has held after an earlier outcome: a state with an
\* error whose call was submitted after a success was shown.
C4_Witness ==
  /\ Len(requests) = 2
  /\ requests[1].ran = "success" /\ requests[2].ran = "failure"
  /\ last = 2
  /\ state.error # Null /\ ~state.loading /\ ~state.resolved

\* ---- C5
\* C5 as stated: once every submission's request has completed and its
\* handler has run, the component is not loading and is in exactly one of
\* the two outcomes: success (resolved, no error) or failure (not resolved,
\* error set).
C5_TwoOutcomes ==
  (submissions > 0 /\ \A i \in 1..Len(requests) : requests[i].phase = "handled") =>
    /\ ~state.loading
    /\ \/ state.resolved /\ state.error = Null
       \/ ~state.resolved /\ ErrorSet(state)

\* ---- C6
RECURSIVE ReadString(_, _, _)
\* The string literal that starts after position i - 1 of text, up to its
\* closing quote: its value and the position after the quote.
ReadString(text, i, acc) ==
  IF i > Len(text) THEN [val |-> acc, next |-> 0]
  ELSE IF text[i] = "\"" THEN [val |-> acc, next |-> i + 1]
  ELSE IF text[i] = "\\" /\ i < Len(text)
       THEN ReadString(text, i + 2, Append(acc, text[i + 1]))
  ELSE ReadString(text, i + 1, Append(acc, text[i]))

\* text from position i starts with lit.
StartsAt(text, i, lit) ==
  /\ i >= 1
  /\ i + Len(lit) - 1 <= Len(text)
  /\ \A j \in 1..Len(lit) : text[i + j - 1] = lit[j]

\* What a JSON parser reads from a body {"username":"..","password":".."}:
\* the two strings, or Null for a body of another shape.
ParseLogin(text) ==
  LET p1 == <<"{", "\"", "u", "s", "e", "r", "n", "a", "m", "e", "\"", ":", "\"">>
      p2 == <<",", "\"", "p", "a", "s", "s", "w", "o", "r", "d", "\"", ":", "\"">>
  IN IF ~StartsAt(text, 1, p1) THEN Null
     ELSE LET u == ReadString(text, Len(p1) + 1, <<>>)
          IN IF ~StartsAt(text, u.next, p2) THEN Null
             ELSE LET q == ReadString(text, u.next + Len(p2), <<>>)
                  IN IF q.next = Len(text) /\ text[q.next] = "}"
                     THEN [username |-> u.val, password |-> q.val]
                     ELSE Null

Outstanding == {i \in 1..Len(requests) : requests[i].phase # "handled"}
Answered == {i \in 1..Len(requests) : requests[i].phase = "handled"}

\* C6: each submission appends exactly one POST to the login endpoint whose
\* body parses to the inputs' values at submit time; no other step issues a
\* request; a call's handlers run once, one of the two, and a handled call
\* never changes again; the outstanding calls are as many as the
\* submissions not yet answered.
C6_OneRequestPerSubmission ==
  /\ [](Cardinality(Outstanding) = submissions - Cardinality(Answered))
  /\ [][/\ Submitted =>
             /\ Len(requests') = Len(requests) + 1
             /\ SubSeq(requests', 1, Len(requests)) = requests
             /\ LET r == requests'[Len(requests')]
                IN /\ r.phase = "sent" /\ r.method = "POST" /\ r.url = LoginUrl
                   /\ ParseLogin(r.body) = [username |-> usernameInput,
                                            password |-> passwordInput]
        /\ ~Submitted => Len(requests') = Len(requests)
        /\ \A i \in 1..Len(requests) :
             /\ requests[i].phase = "handled" => requests'[i] = requests[i]
             /\ Delivered(i) =>
                  /\ requests'[i].ran \in {"success", "failure"}
                  /\ requests[i].ran = "none"
                  /\ \A j \in 1..Len(requests) : j # i => requests'[j] = requests[j]
       ]_vars

\* A submission made with text that needs escaping while another call is
\* outstanding, and one call already handled.
C6_Witness ==
  /\ submissions = 2
  /\ requests[1].phase = "handled"
  /\ requests[2].phase = "sent"
  /\ ParseLogin(requests[2].body) = [username |-> QuoteBackslash, password |-> norris]

\* ---- C8
\* C8: at most one element with role "alert" is rendered, and none while
\* loading.
C8_AtMostOneAlert ==
  /\ Len(Alerts(state)) <= 1
  /\ ~(Truthy(state.error) /\ state.resolved)
  /\ state.loading => Alerts(state) = <<>>

\* An error alert is shown by a rejection handler that ran after a
\* fulfilment handler had shown the success alert.
C8_Witness ==
  /\ Len(requests) = 2
  /\ requests[1].ran = "success"
  /\ requests[2].ran = "failure" /\ last = 2
  /\ Len(Alerts(state)) = 1
  /\ Truthy(state.error)

\* ---- C9
\* C9: a submission leaves the state loading, not resolved, no error, with
\* no alert, whatever the state was; and a state that is exactly that
\* changes only in a step that runs a call's handlers.
C9_SubmitResets ==
  [][/\ Submitted => (state' = LoadingState /\ Alerts(state') = <<>>)
     /\ (state = LoadingState /\ state' # state) =>
          \E i \in 1..Len(requests) : Delivered(i)
    ]_vars

\* A second submission made while an error alert was shown.
C9_Witness ==
  /\ submissions = 2
  /\ requests[1].phase = "handled"
  /\ Truthy(Chain(requests[1].resp).value.message)
  /\ Chain(requests[1].resp).kind = "rejected"
  /\ requests[2].phase = "sent"
  /\ state = LoadingState

\* ---- C10
\* C10 as stated: resolved = true only in a state where a fulfilment
\* handler has written storage key "token" with its response's token.
C10_ResolvedImpliesStored ==
  state.resolved =>
    \E i \in 1..Len(requests) :
         /\ requests[i].ran = "success"
         /\ ~requests[i].threw
         /\ storage["token"] = Str(ToString(requests[i].resp.body.token))

\* ---- C7
\* C7: in a run of the suite no query and no assertion fails: the first
\* story finds the one alert, the congrats text, and reads the fake token
\* from storage; the second finds the one alert, the server's message, and
\* still reads the fake token; after teardown key "token" is absent and the
\* server is closed; and the run never stops before its end.
C7_SuitePasses ==
  /\ failed = {}
  /\ pc = "preRender2" =>
       /\ found = <<CongratsText>>
       /\ read = Str(token)
       /\ serverResponse = InitialResponse
  /\ pc = "teardown" =>
       /\ found = <<InternalServerError>>
       /\ read = Str(token)
       /\ submissions = 2
  /\ pc = "done" => (storage["token"] = Null /\ server = "closed")
  /\ pc = "done" \/ ENABLED SuiteNext

\* The suite has run to its end, both stories having submitted the form.
C7_Witness ==
  /\ pc = "done"
  /\ submissions = 2
  /\ requests[1].ran = "success"
  /\ requests[2].ran = "failure"
  /\ found = <<InternalServerError>>
  /\ read = Str(token)

\* ---- C11
\* The view state a response stands for: success for a fulfilled chain,
\* failure with the rejection's message otherwise.
ViewOf(resp) ==
  LET c == Chain(resp)
  IN IF c.kind = "fulfilled" THEN SuccessState
     ELSE [resolved |-> FALSE, loading |-> FALSE, error |-> c.value.message]

\* C11 as stated: submissions may overlap and be answered in any order;
\* once every call has been answered and handled, the view state is that of
\* the response delivered last; and each delivery of a successful response
\* leaves its token in storage, which no other step changes, so that the
\* stored token is that of the successful response delivered last.
C11_LastDeliveredWins ==
  /\ []((last # 0 /\ \A i \in 1..Len(requests) : requests[i].phase = "handled")
          => state = ViewOf(requests[last].resp))
  /\ [][\A i \in 1..Len(requests) :
          IF Delivered(i) /\ Chain(requests[i].resp).kind = "fulfilled"
          THEN storage'["token"] = Str(ToString(requests[i].resp.body.token))
          ELSE Delivered(i) => storage'["token"] = storage["token"]]_vars

====
